---- MODULE Spec2Model ----
(***************************************************************************)
(* DexScreenerBot (script/bot.py): the poll loop run(), the admission      *)
(* filter apply_filters, the classifier analyze_pair with its checks, the  *)
(* trading decision handle_trading / execute_trade and the sqlite writes   *)
(* of save_analysis.                                                       *)
(*                                                                         *)
(* Numbers.  Money amounts, prices and ages are naturals.  The fractional  *)
(* configuration values are carried as integer percentages (0.10 is 10,    *)
(* 0.5 is 50, 2.0 is 200) and every comparison the code makes on a         *)
(* quotient is made here on the cross-multiplied integers, which is the    *)
(* same comparison for a positive divisor.                                 *)
(*                                                                         *)
(* Time.  datetime.now() is a logical clock `now` that ticks once per      *)
(* analyze_pair call; a pair's age in hours is an input of the pair.       *)
(*                                                                         *)
(* Store.  The three tables hold the committed rows.  Rows written but not *)
(* committed when the process dies are lost (sqlite rolls them back).      *)
(* A tokens row keeps the key, the symbol and last_updated; an analysis    *)
(* row the key, the type and the timestamp; the other columns are copies   *)
(* of fields of the analysis record and are not carried.                   *)
(***************************************************************************)
EXTENDS Integers, Sequences, FiniteSets, TLC

\* ------------------------------------------------------------------ bounds
\* pairs in one fetched list; analyze_pair calls in one run
MaxPairs == 2
MaxAnalyses == 3

\* ------------------------------------------------------ program constants
\* the transaction count fetch_pocker_universe_data compares (line 94)
PlaceholderTransactions == 100

\* ------------------------------------------------------------ input values
\* the pools of the exchange: a pair address and its base token symbol
Listings ==
    {[pairAddress |-> "a0", symbol |-> "s0"],
     [pairAddress |-> "a1", symbol |-> "s1"],
     [pairAddress |-> "a2", symbol |-> "s2"]}
Addresses == {l.pairAddress : l \in Listings}
Makers == {"", "dev0"}
Liquidities == {0, 1000}
Volumes == {500, 2000, 8000, 20000}
PriceStrings == {"", "90", "100"}
Ages == {1, 60, 100}
\* holder amounts: no data, two equal holders, a majority holder, all zero
HolderLists == {<<>>, <<50, 50>>, <<60, 40>>, <<0, 0>>}
TxnCounts == {50, 200}
\* rugcheck_report.get("status"): a status string, or ABSENT for the empty
\* report {} that fetch_rugcheck_report returns when the request fails
ReportStatuses == {"GOOD", "BAD", "ABSENT"}

PairRecords ==
    UNION {[pairAddress : {l.pairAddress}, symbol : {l.symbol},
            maker : Makers, liquidity : Liquidities, volume : Volumes,
            priceUsd : PriceStrings, ageHours : Ages, holders : HolderLists,
            txns : TxnCounts] : l \in Listings}

\* the pairs the full run draws: the blacklisted token and the age test
\* reject, the other tests of apply_filters always pass
RunPairs ==
    UNION {[pairAddress : {l.pairAddress}, symbol : {l.symbol},
            maker : {""}, liquidity : {1000}, volume : Volumes \ {500},
            priceUsd : PriceStrings, ageHours : Ages, holders : HolderLists,
            txns : {50}] : l \in Listings}

\* config.json: thresholds (the blacklists are the variable `blacklists`)
BaseConfig ==
    [min_liquidity_usd |-> 1000, min_volume_24h |-> 1000, max_age_hours |-> 72,
     rugged_liquidity_threshold_pct |-> 50, rugged_volume_multiplier |-> 3,
     pumped_volume_multiplier |-> 5, pumped_max_age_hours |-> 24,
     new_pair_max_age_hours |-> 48,
     volume_liquidity_ratio |-> 10, min_transactions |-> 150,
     buy_threshold_pct |-> 10, sell_threshold_pct |-> 10]

Configs ==
    { [BaseConfig EXCEPT !.min_liquidity_usd = ml,
                         !.rugged_liquidity_threshold_pct = rl,
                         !.min_transactions = mt,
                         !.buy_threshold_pct = bt,
                         !.sell_threshold_pct = st] :
        ml \in {0, 1000}, rl \in {50, 200}, mt \in {100, 150},
        bt \in {0, 10}, st \in {0, 10} }

InitialBlacklists ==
    [tokens |-> <<"s0">>, developers |-> <<"dev0">>,
     fake_volume_tokens |-> <<>>, bundled_tokens |-> <<>>]

Categories ==
    {"unsafe", "bundled", "fake_volume", "rugged", "pumped", "new_pair", "normal"}

\* keys of self.patterns (line 16)
PatternKeys == {"rugged", "pumped", "new_pairs", "fake_volume", "bundled"}

VARIABLES
    pc,             \* position of run(): start, fetch, loop, save, crashed
    config,         \* self.config thresholds
    blacklists,     \* self.config["blacklists"]
    patterns,       \* self.patterns
    price_history,  \* self.price_history
    db_tokens,      \* committed rows of table tokens, by pair_address
    db_analysis,    \* committed rows of table analysis
    db_trades,      \* committed rows of table trades
    telegram,       \* messages handed to send_telegram_message
    config_file,    \* blacklists last dumped to config.json
    remaining,      \* pairs of the fetched list not yet iterated
    pair_holders,   \* pair["holders"] of the pair analyze_pair was called with
    report,         \* status of the rugcheck report fetched for it
    analysis,       \* the record analyze_pair returned
    now,            \* logical clock
    input,          \* SpecOnePair: the pair the fetched list holds
    input_report    \* SpecOnePair: the report rugcheck will answer with

vars == <<pc, config, blacklists, patterns, price_history, db_tokens,
          db_analysis, db_trades, telegram, config_file, remaining,
          pair_holders, report, analysis, now, input, input_report>>

\* ------------------------------------------------------------------ helpers
InSeq(x, s) == \E i \in 1..Len(s) : s[i] = x

RECURSIVE SumSeq(_)
SumSeq(s) == IF s = <<>> THEN 0 ELSE Head(s) + SumSeq(Tail(s))

NoPair ==
    [pairAddress |-> "", symbol |-> "", maker |-> "", liquidity |-> 0,
     volume |-> 0, priceUsd |-> "", ageHours |-> 0, holders |-> <<>>,
     txns |-> 0]

NoAnalysis ==
    [pair_address |-> "", symbol |-> "", price_usd |-> 0, last_updated |-> 0,
     type |-> ""]

NoRow == [symbol |-> "", last_updated |-> 0]

\* float(price) if price else 0   (line 168)
FloatOf(s) ==
    CASE s = "90" -> 90
      [] s = "100" -> 100
      [] OTHER -> 0

PriceUsd(s) == IF s # "" THEN FloatOf(s) ELSE 0

\* ------------------------------------------------------------ apply_filters
\* apply_filters without the test of blacklists["bundled_tokens"]
ApplyFiltersNoBundledTest(cfg, bl, p) ==
    IF \/ InSeq(p.symbol, bl.tokens)
       \/ InSeq(p.maker, bl.developers)
       \/ InSeq(p.symbol, bl.fake_volume_tokens)
    THEN FALSE
    ELSE /\ p.liquidity >= cfg.min_liquidity_usd
         /\ p.volume >= cfg.min_volume_24h
         /\ p.ageHours <= cfg.max_age_hours

\* apply_filters without the test of min_liquidity_usd
ApplyFiltersNoLiquidityTest(cfg, bl, p) ==
    IF \/ InSeq(p.symbol, bl.tokens)
       \/ InSeq(p.maker, bl.developers)
       \/ InSeq(p.symbol, bl.fake_volume_tokens)
       \/ InSeq(p.symbol, bl.bundled_tokens)
    THEN FALSE
    ELSE /\ p.volume >= cfg.min_volume_24h
         /\ p.ageHours <= cfg.max_age_hours

ApplyFilters(cfg, bl, p) ==
    IF \/ InSeq(p.symbol, bl.tokens)
       \/ InSeq(p.maker, bl.developers)
       \/ InSeq(p.symbol, bl.fake_volume_tokens)
       \/ InSeq(p.symbol, bl.bundled_tokens)
    THEN FALSE
    ELSE /\ p.liquidity >= cfg.min_liquidity_usd
         /\ p.volume >= cfg.min_volume_24h
         /\ p.ageHours <= cfg.max_age_hours

\* ------------------------------------------------------ the classifier checks
\* rugcheck_report.get("status") != "GOOD"
ReportUnsafe(rep) == rep # "GOOD"

\* check_bundled_supply divides by total_supply: ZeroDivisionError when the
\* holder list is not empty and its amounts sum to zero
BundledSupplyRaises(holders) == holders # <<>> /\ SumSeq(holders) = 0

\* holder["amount"] / total_supply > 0.5 for some holder
CheckBundledSupply(holders) ==
    IF holders = <<>>
    THEN FALSE
    ELSE \E i \in 1..Len(holders) : 2 * holders[i] > SumSeq(holders)

\* ratio = volume / liquidity if liquidity > 0 else inf;  ratio > r
RatioExceeds(volume, liquidity, r) ==
    IF liquidity > 0 THEN volume > r * liquidity ELSE TRUE

FetchPockerUniverseData(cfg, volume, liquidity) ==
    /\ RatioExceeds(volume, liquidity, cfg.volume_liquidity_ratio)
    /\ PlaceholderTransactions < cfg.min_transactions

DetectPatterns(cfg, liquidity, volume, age_hours) ==
    IF /\ liquidity * 100 <
            cfg.min_liquidity_usd * cfg.rugged_liquidity_threshold_pct
       /\ volume > liquidity * cfg.rugged_volume_multiplier
    THEN "rugged"
    ELSE IF /\ volume > liquidity * cfg.pumped_volume_multiplier
            /\ age_hours < cfg.pumped_max_age_hours
         THEN "pumped"
         ELSE IF age_hours < cfg.new_pair_max_age_hours
              THEN "new_pair"
              ELSE "normal"

\* analyze_pair with the supply check ahead of the safety check
AnalysisTypeSupplyFirst(cfg, p, rep) ==
    IF CheckBundledSupply(p.holders)
    THEN "bundled"
    ELSE IF ReportUnsafe(rep)
         THEN "unsafe"
         ELSE IF FetchPockerUniverseData(cfg, p.volume, p.liquidity)
              THEN "fake_volume"
              ELSE DetectPatterns(cfg, p.liquidity, p.volume, p.ageHours)

\* the early-return chain of analyze_pair (lines 173-192), for a holder list
\* on which check_bundled_supply does not raise
AnalysisType(cfg, p, rep) ==
    IF ReportUnsafe(rep)
    THEN "unsafe"
    ELSE IF CheckBundledSupply(p.holders)
         THEN "bundled"
         ELSE IF FetchPockerUniverseData(cfg, p.volume, p.liquidity)
              THEN "fake_volume"
              ELSE DetectPatterns(cfg, p.liquidity, p.volume, p.ageHours)

\* analyze_pair reaches check_bundled_supply and it raises
AnalyzeRaises(p, rep) == ~ReportUnsafe(rep) /\ BundledSupplyRaises(p.holders)

\* ------------------------------------------------------------ handle_trading
\* handle_trading reading the oldest price, [0], in place of the latest, [-1]
PreviousPriceOldest(hist, current_price) ==
    IF hist # <<>> THEN hist[1] ELSE current_price

\* self.price_history[a][-1] if self.price_history[a] else current_price
PreviousPrice(hist, current_price) ==
    IF hist # <<>> THEN hist[Len(hist)] ELSE current_price

\* handle_trading with price_change = current / previous, the subtraction
\* forgotten
TradeActionNoSubtraction(cfg, previous_price, current_price) ==
    LET change == IF previous_price # 0 THEN current_price ELSE 0
        scale == IF previous_price # 0 THEN previous_price ELSE 1
    IN  IF change * 100 >= cfg.buy_threshold_pct * scale
        THEN "buy"
        ELSE IF change * 100 <= (0 - cfg.sell_threshold_pct) * scale
             THEN "sell"
             ELSE "hold"

\* price_change = (current - previous) / previous if previous else 0, then
\* the two threshold tests; compared as price_change * previous * 100
TradeAction(cfg, previous_price, current_price) ==
    LET change == IF previous_price # 0
                  THEN current_price - previous_price ELSE 0
        scale == IF previous_price # 0 THEN previous_price ELSE 1
    IN  IF change * 100 >= cfg.buy_threshold_pct * scale
        THEN "buy"
        ELSE IF change * 100 <= (0 - cfg.sell_threshold_pct) * scale
             THEN "sell"
             ELSE "hold"

\* whether analyze_pair calls handle_trading (line 195)
Trades(type) == type \in {"new_pair", "pumped"}

\* execute_trade: the row it inserts and commits, the message it sends
TradeRow(a, action, price, ts) ==
    [pair_address |-> a, action |-> action, price_usd |-> price,
     timestamp |-> ts]

TradeMessage(symbol, action, price) ==
    [text |-> action, symbol |-> symbol, price_usd |-> price]

\* ------------------------------------------------------------ save_analysis
\* self.patterns[analysis["type"]] raises KeyError for a type that is no key
SaveRaises(type) == type # "normal" /\ type \notin PatternKeys

\* -------------------------------------------------------------------- state
NoDump ==
    [tokens |-> <<>>, developers |-> <<>>, fake_volume_tokens |-> <<>>,
     bundled_tokens |-> <<>>]

StartedMessage == [text |-> "started", symbol |-> "", price_usd |-> 0]

\* the configurations of the full run: the trading thresholds vary
RunConfigs ==
    {c \in Configs : /\ c.min_liquidity_usd = BaseConfig.min_liquidity_usd
                     /\ c.rugged_liquidity_threshold_pct =
                            BaseConfig.rugged_liquidity_threshold_pct
                     /\ c.min_transactions = BaseConfig.min_transactions}

\* the configurations of the one-pair run: the classifier thresholds vary
OnePairConfigs ==
    {c \in Configs : /\ c.buy_threshold_pct = BaseConfig.buy_threshold_pct
                     /\ c.sell_threshold_pct = BaseConfig.sell_threshold_pct}

Init ==
    /\ pc = "start"
    /\ config \in RunConfigs
    /\ blacklists = InitialBlacklists
    /\ patterns = [k \in PatternKeys |-> <<>>]
    /\ price_history = [a \in Addresses |-> <<>>]
    /\ db_tokens = [a \in Addresses |-> NoRow]
    /\ db_analysis = <<>>
    /\ db_trades = <<>>
    /\ telegram = <<>>
    /\ config_file = NoDump
    /\ remaining = 0
    /\ pair_holders = <<>>
    /\ report = ""
    /\ analysis = NoAnalysis
    /\ now = 0
    /\ input = NoPair
    /\ input_report = ""

\* run(), lines 267-268
Start ==
    /\ pc = "start"
    /\ telegram' = Append(telegram, StartedMessage)
    /\ pc' = "fetch"
    /\ UNCHANGED <<config, blacklists, patterns, price_history, db_tokens,
                   db_analysis, db_trades, config_file, remaining,
                   pair_holders, report, analysis, now, input, input_report>>

\* pairs = self.fetch_dex_data(): a list of n pairs, [] when the request
\* fails; its elements are drawn when the for loop reaches them
FetchDexData ==
    /\ pc = "fetch"
    /\ \E n \in 0..MaxPairs : remaining' = n
    /\ pc' = "loop"
    /\ UNCHANGED <<config, blacklists, patterns, price_history, db_tokens,
                   db_analysis, db_trades, telegram, config_file,
                   pair_holders, report, analysis, now, input, input_report>>

\* the for loop of run() has a next pair
LoopHasNext == pc = "loop" /\ remaining > 0

\* apply_filters(pair) is False for the next pair: the loop goes on
Reject ==
    /\ remaining' = remaining - 1
    /\ UNCHANGED <<pc, config, blacklists, patterns, price_history,
                   db_tokens, db_analysis, db_trades, telegram, config_file,
                   pair_holders, report, analysis, now, input, input_report>>

\* What analyze_pair(p) computes from p and the report with status rep, up
\* to its call of handle_trading: whether check_bundled_supply raises, and
\* otherwise the fields of the analysis record.
AnalyzePairOutcome(cfg, p, rep) ==
    [raises |-> AnalyzeRaises(p, rep),
     type |-> IF AnalyzeRaises(p, rep) THEN "" ELSE AnalysisType(cfg, p, rep),
     pair_address |-> p.pairAddress,
     symbol |-> p.symbol,
     price_usd |-> PriceUsd(p.priceUsd),
     holders |-> p.holders,
     report |-> rep]

\* analyze_pair returns with outcome o: the blacklist append of lines 182 and
\* 188, handle_trading and execute_trade
Analyze(o) ==
    /\ ~o.raises
    /\ LET a == o.pair_address
           previous == PreviousPrice(price_history[a], o.price_usd)
           action == TradeAction(config, previous, o.price_usd)
       IN  /\ analysis' =
                [pair_address |-> a, symbol |-> o.symbol,
                 price_usd |-> o.price_usd, last_updated |-> now + 1,
                 type |-> o.type]
           /\ blacklists' =
                CASE o.type = "bundled" ->
                       [blacklists EXCEPT !.bundled_tokens = Append(@, o.symbol)]
                  [] o.type = "fake_volume" ->
                       [blacklists EXCEPT
                          !.fake_volume_tokens = Append(@, o.symbol)]
                  [] OTHER -> blacklists
           /\ price_history' =
                IF Trades(o.type)
                THEN [price_history EXCEPT ![a] = Append(@, o.price_usd)]
                ELSE price_history
           /\ IF Trades(o.type) /\ action # "hold"
              THEN /\ telegram' =
                        Append(telegram,
                               TradeMessage(o.symbol, action, o.price_usd))
                   /\ db_trades' =
                        Append(db_trades,
                               TradeRow(a, action, o.price_usd, now + 1))
              ELSE UNCHANGED <<telegram, db_trades>>
    /\ now' = now + 1
    /\ pair_holders' = o.holders
    /\ report' = o.report
    /\ pc' = "save"
    /\ UNCHANGED <<config, patterns, db_tokens, db_analysis, config_file,
                   remaining, input, input_report>>

\* analyze_pair raises ZeroDivisionError in check_bundled_supply; run()
\* catches nothing, the process ends
AnalyzeCrash ==
    /\ now' = now + 1
    /\ pc' = "crashed"
    /\ UNCHANGED <<config, blacklists, patterns, price_history, db_tokens,
                   db_analysis, db_trades, telegram, config_file,
                   remaining, pair_holders, report, analysis, input,
                   input_report>>

\* the outcomes of analyze_pair over the admitted pairs and the reports;
\* pairs with the same outcome take the same step
Outcomes ==
    {AnalyzePairOutcome(config, p, rep) :
        p \in {q \in RunPairs : ApplyFilters(config, blacklists, q)},
        rep \in ReportStatuses}

\* the pairs apply_filters rejects
Rejected == {p \in RunPairs : ~ApplyFilters(config, blacklists, p)}

RejectPair == LoopHasNext /\ Rejected # {} /\ Reject

AnalyzePair ==
    LoopHasNext /\ now < MaxAnalyses /\ \E o \in Outcomes : Analyze(o)

\* the admitted pairs and reports on which analyze_pair raises
Raising ==
    {p \in RunPairs : /\ ApplyFilters(config, blacklists, p)
                      /\ \E rep \in ReportStatuses : AnalyzeRaises(p, rep)}

AnalyzePairRaises ==
    LoopHasNext /\ now < MaxAnalyses /\ Raising # {} /\ AnalyzeCrash

\* save_analysis(analysis) returns: upsert, optional insert, commit
SaveAnalysis ==
    /\ pc = "save"
    /\ ~SaveRaises(analysis.type)
    /\ db_tokens' =
         [db_tokens EXCEPT ![analysis.pair_address] =
            [symbol |-> analysis.symbol,
             last_updated |-> analysis.last_updated]]
    /\ IF analysis.type # "normal"
       THEN /\ db_analysis' =
                 Append(db_analysis,
                        [pair_address |-> analysis.pair_address,
                         analysis_type |-> analysis.type,
                         timestamp |-> analysis.last_updated])
            /\ patterns' =
                 [patterns EXCEPT ![analysis.type] = Append(@, analysis.symbol)]
       ELSE UNCHANGED <<db_analysis, patterns>>
    /\ remaining' = remaining - 1
    /\ pair_holders' = <<>>
    /\ report' = ""
    /\ analysis' = NoAnalysis
    /\ pc' = "loop"
    /\ UNCHANGED <<config, blacklists, price_history, db_trades, telegram,
                   config_file, now, input, input_report>>

\* save_analysis(analysis) raises KeyError at line 261, before the commit of
\* line 263: the process ends and the two uncommitted rows are rolled back
SaveAnalysisRaises ==
    /\ pc = "save"
    /\ SaveRaises(analysis.type)
    /\ pair_holders' = <<>>
    /\ report' = ""
    /\ analysis' = NoAnalysis
    /\ pc' = "crashed"
    /\ UNCHANGED <<config, blacklists, patterns, price_history, db_tokens,
                   db_analysis, db_trades, telegram, config_file,
                   remaining, now, input, input_report>>

\* end of the for loop: statistics, json.dump(self.config), sleep
EndCycle ==
    /\ pc = "loop"
    /\ remaining = 0
    /\ config_file' = blacklists
    /\ pc' = "fetch"
    /\ UNCHANGED <<config, blacklists, patterns, price_history, db_tokens,
                   db_analysis, db_trades, telegram, remaining,
                   pair_holders, report, analysis, now, input, input_report>>

Next ==
    \/ Start
    \/ FetchDexData
    \/ RejectPair
    \/ AnalyzePair
    \/ AnalyzePairRaises
    \/ SaveAnalysis
    \/ SaveAnalysisRaises
    \/ EndCycle

Spec == Init /\ [][Next]_vars

\* ------------------------------------------------ one pair, inputs in the state
\* The run after Start and a fetch of one pair, the pair and the report its
\* analysis will fetch being drawn at the start.
InitOnePair ==
    /\ pc = "loop"
    /\ config \in OnePairConfigs
    /\ blacklists = InitialBlacklists
    /\ patterns = [k \in PatternKeys |-> <<>>]
    /\ price_history = [a \in Addresses |-> <<>>]
    /\ db_tokens = [a \in Addresses |-> NoRow]
    /\ db_analysis = <<>>
    /\ db_trades = <<>>
    /\ telegram = <<StartedMessage>>
    /\ config_file = NoDump
    /\ remaining = 1
    /\ pair_holders = <<>>
    /\ report = ""
    /\ analysis = NoAnalysis
    /\ now = 0
    /\ input \in PairRecords
    /\ input_report \in ReportStatuses

InputAdmitted == ApplyFilters(config, blacklists, input)

InputOutcome == AnalyzePairOutcome(config, input, input_report)

RejectInput == LoopHasNext /\ ~InputAdmitted /\ Reject

AnalyzeInput == LoopHasNext /\ InputAdmitted /\ Analyze(InputOutcome)

AnalyzeInputRaises ==
    /\ LoopHasNext
    /\ InputAdmitted
    /\ AnalyzeRaises(input, input_report)
    /\ AnalyzeCrash

NextOnePair ==
    \/ RejectInput
    \/ AnalyzeInput
    \/ AnalyzeInputRaises
    \/ SaveAnalysis
    \/ SaveAnalysisRaises
    \/ EndCycle

SpecOnePair == InitOnePair /\ [][NextOnePair]_vars

\* ================================================================== claims
\* A holder owns more than half of the summed holder amounts.
MajorityHolder(hs) ==
    \E i \in 1..Len(hs) : 2 * hs[i] > SumSeq(hs)

BlacklistNames ==
    {"tokens", "developers", "fake_volume_tokens", "bundled_tokens"}

IsPrefix(s, t) == Len(s) <= Len(t) /\ SubSeq(t, 1, Len(s)) = s

Count(x, s) == Cardinality({i \in 1..Len(s) : s[i] = x})

\* the step in which analyze_pair returns
AnalyzeStep == pc = "loop" /\ pc' = "save"

\* the step in which analyze_pair returns after a call of handle_trading
TradingStep == AnalyzeStep /\ analysis'.type \in {"new_pair", "pumped"}

\* ------------------------------------------------------------------- C1
\* C1: the analysis record of a pair carries exactly one of the seven
\* categories, the one of the first check that matches in the order safety,
\* supply concentration, volume authenticity, pattern; a later check never
\* overrides an earlier one.
C1_FirstMatchingCheck ==
    pc = "save" =>
        LET safety == input_report # "GOOD"
            supply == MajorityHolder(input.holders)
            volume == FetchPockerUniverseData(config, input.volume,
                                              input.liquidity)
            pattern == DetectPatterns(config, input.liquidity, input.volume,
                                      input.ageHours)
        IN  /\ analysis.type \in Categories
            /\ analysis.type = "unsafe" <=> safety
            /\ analysis.type = "bundled" <=> ~safety /\ supply
            /\ analysis.type = "fake_volume" <=> ~safety /\ ~supply /\ volume
            /\ analysis.type \in {"rugged", "pumped", "new_pair", "normal"}
                 <=> ~safety /\ ~supply /\ ~volume
            /\ ~safety /\ ~supply /\ ~volume => analysis.type = pattern

\* a pair whose report is not GOOD, that has a majority holder and a volume
\* the authenticity check flags, has been labelled unsafe
C1_Witness ==
    /\ pc = "save"
    /\ input_report = "BAD"
    /\ MajorityHolder(input.holders)
    /\ FetchPockerUniverseData(config, input.volume, input.liquidity)
    /\ analysis.type = "unsafe"

\* ------------------------------------------------------------------- C2
\* C2: when the safety report is not GOOD or is absent, analyze_pair labels
\* the pair unsafe and leaves the four blacklists, every price history and
\* the trade events unchanged.
C2_UnsafeFrame ==
    [][(AnalyzeStep /\ report' # "GOOD") =>
          /\ analysis'.type = "unsafe"
          /\ blacklists' = blacklists
          /\ price_history' = price_history
          /\ db_trades' = db_trades]_vars

\* an absent report for a pair with a majority holder whose address has a
\* price history: labelled unsafe
C2_Witness ==
    /\ pc = "save"
    /\ report = "ABSENT"
    /\ MajorityHolder(pair_holders)
    /\ analysis.type = "unsafe"
    /\ price_history[analysis.pair_address] # <<>>
    /\ db_trades # <<>>

\* ------------------------------------------------------------------- C3
\* C3: blacklists only grow; a pair run through the filter and classified
\* with a safe report and a majority holder is labelled bundled and its
\* symbol is then in the bundled blacklist exactly once; a pair whose symbol
\* is in a blacklist is never classified.
C3_BundledOnce ==
    [][/\ \A k \in BlacklistNames : IsPrefix(blacklists[k], blacklists'[k])
       /\ AnalyzeStep =>
            /\ \A k \in BlacklistNames :
                  ~InSeq(analysis'.symbol, blacklists[k])
            /\ (report' = "GOOD" /\ MajorityHolder(pair_holders')) =>
                  /\ analysis'.type = "bundled"
                  /\ Count(analysis'.symbol, blacklists'.bundled_tokens) = 1
      ]_vars

\* a second symbol has been labelled bundled, the first being blacklisted
C3_Witness ==
    /\ pc = "save"
    /\ report = "GOOD"
    /\ MajorityHolder(pair_holders)
    /\ analysis.type = "bundled"
    /\ Len(blacklists.bundled_tokens) = 2

\* ------------------------------------------------------------------- C4
\* C4: a pair that passed the safety and supply checks is labelled
\* fake_volume, its symbol appended to the fake-volume blacklist, exactly
\* when volume / liquidity (infinite for liquidity zero) exceeds the
\* configured ratio and the pair's transaction count is below the configured
\* min-transactions.
C4_FakeVolumeRule ==
    (pc = "save" /\ input_report = "GOOD" /\ ~MajorityHolder(input.holders))
      =>
        LET ratio_exceeds ==
                \/ input.liquidity = 0
                \/ input.volume >
                     config.volume_liquidity_ratio * input.liquidity
            flagged == ratio_exceeds /\ input.txns < config.min_transactions
        IN  /\ analysis.type = "fake_volume" <=> flagged
            /\ flagged =>
                 blacklists.fake_volume_tokens = <<analysis.symbol>>

\* ------------------------------------------------------------------- C5
\* the first handle_trading sample of an address holds: no trade event, no
\* notification, and the history is the sampled price alone
FirstSampleHolds ==
    LET a == analysis'.pair_address
    IN  /\ db_trades' = db_trades
        /\ telegram' = telegram
        /\ price_history'[a] = <<analysis'.price_usd>>

\* C5 as stated: the first sample of an address with no price history holds
\* for every price and every configured buy and sell threshold.
C5_FirstSampleAlwaysHolds ==
    [][(TradingStep /\ price_history[analysis'.pair_address] = <<>>)
          => FirstSampleHolds]_vars

\* C5 as amended: the first sample of an address with no price history holds
\* for every price when the buy threshold and the sell threshold are above 0.
C5_FirstSampleHoldsPositiveThresholds ==
    [][(/\ TradingStep
        /\ price_history[analysis'.pair_address] = <<>>
        /\ config.buy_threshold_pct > 0
        /\ config.sell_threshold_pct > 0)
          => FirstSampleHolds]_vars

\* a first sample at a price above 0 under thresholds above 0
C5_Witness ==
    /\ pc = "save"
    /\ analysis.type \in {"new_pair", "pumped"}
    /\ analysis.price_usd > 0
    /\ price_history[analysis.pair_address] = <<analysis.price_usd>>
    /\ config.buy_threshold_pct > 0
    /\ config.sell_threshold_pct > 0
    /\ db_trades = <<>>

\* ------------------------------------------------------------------- C6
\* priceChange = (current - previous) / previous, 0 when previous is 0;
\* buy if priceChange >= buy-threshold, sell if <= -sell-threshold
DecisionOf(previous, current) ==
    IF previous = 0
    THEN IF 0 >= config.buy_threshold_pct THEN "buy"
         ELSE IF 0 <= 0 - config.sell_threshold_pct THEN "sell"
         ELSE "hold"
    ELSE IF 100 * (current - previous) >= config.buy_threshold_pct * previous
         THEN "buy"
         ELSE IF 100 * (current - previous) <=
                   0 - config.sell_threshold_pct * previous
              THEN "sell"
              ELSE "hold"

\* C6: a sample after the first takes as previous the latest earlier sample
\* of the same address, decides buy, sell or hold by the price change
\* against the thresholds, writes one trade event per buy or sell and none
\* per hold, and appends the price to that address's history alone; no other
\* step changes a history or the trade events.
C6_LaterSamples ==
    [][/\ (TradingStep /\ price_history[analysis'.pair_address] # <<>>) =>
            LET a == analysis'.pair_address
                current == analysis'.price_usd
                hist == price_history[a]
                decision == DecisionOf(hist[Len(hist)], current)
            IN  /\ price_history' =
                     [price_history EXCEPT ![a] = Append(hist, current)]
                /\ decision = "hold" => db_trades' = db_trades
                /\ decision # "hold" =>
                     /\ Len(db_trades') = Len(db_trades) + 1
                     /\ SubSeq(db_trades', 1, Len(db_trades)) = db_trades
                     /\ db_trades'[Len(db_trades')].pair_address = a
                     /\ db_trades'[Len(db_trades')].action = decision
                     /\ db_trades'[Len(db_trades')].price_usd = current
       /\ ~TradingStep =>
            /\ price_history' = price_history
            /\ db_trades' = db_trades
      ]_vars

\* the third sample of the run is the second of its address, the sample in
\* between being of the other address, and it wrote a trade event
C6_Witness ==
    /\ pc = "save"
    /\ analysis.type \in {"new_pair", "pumped"}
    /\ now = 3
    /\ Len(price_history[analysis.pair_address]) = 2
    /\ \E b \in Addresses \ {analysis.pair_address} :
          /\ Len(price_history[b]) = 1
          /\ db_tokens[b].last_updated = 2
          /\ price_history[b][1] # price_history[analysis.pair_address][1]
    /\ config.buy_threshold_pct > 0
    /\ config.sell_threshold_pct > 0
    /\ db_trades # <<>>
    /\ db_trades[Len(db_trades)].timestamp = 3

\* ------------------------------------------------------------------- C7
\* C7: saving a classified pair persists one token snapshot, one analysis
\* event when the category is not normal and none when it is, and a pair
\* classified normal has no trade event.
C7_OneSnapshotPerPair ==
    [][pc = "save" =>
         LET a == analysis.pair_address
             events == IF analysis.type = "normal" THEN 0 ELSE 1
         IN  /\ db_tokens'[a].last_updated = analysis.last_updated
             /\ db_tokens'[a].symbol = analysis.symbol
             /\ Len(db_analysis') = Len(db_analysis) + events
             /\ analysis.type = "normal" =>
                  \A i \in 1..Len(db_trades') :
                     db_trades'[i].timestamp # analysis.last_updated
      ]_vars

\* ------------------------------------------------------------------- C8
\* C8: classifying or saving a pair never aborts the cycle or the run, so
\* the loop always goes on to the next pair of the fetched list.
C8_NeverAborts == pc # "crashed"

\* ------------------------------------------------------------------- C9
\* C9: in every committed state of the store, a trade event of a pair address
\* comes with the token snapshot and the analysis event of the classification
\* that made it.
C9_TradeWithSnapshot ==
    \A i \in 1..Len(db_trades) :
        LET t == db_trades[i]
        IN  /\ db_tokens[t.pair_address].last_updated >= t.timestamp
            /\ \E j \in 1..Len(db_analysis) :
                  /\ db_analysis[j].pair_address = t.pair_address
                  /\ db_analysis[j].timestamp = t.timestamp

\* ------------------------------------------------------------------ C10
\* C10: with min_liquidity_usd >= 0 and a rugged liquidity_threshold of at
\* most 1, a pair admitted by apply_filters is never classified rugged.
C10_AdmittedNeverRugged ==
    (/\ pc = "save"
     /\ config.min_liquidity_usd >= 0
     /\ config.rugged_liquidity_threshold_pct <= 100)
      => /\ analysis.type # "rugged"
         /\ (input_report = "GOOD" /\ ~MajorityHolder(input.holders)
             /\ analysis.type # "fake_volume")
              => analysis.type \in {"pumped", "new_pair", "normal"}

\* pattern detection ran on an admitted pair whose volume is above
\* liquidity x the rugged volume multiplier, under a threshold of at most 1
C10_Witness ==
    /\ pc = "save"
    /\ config.min_liquidity_usd > 0
    /\ config.rugged_liquidity_threshold_pct <= 100
    /\ input_report = "GOOD"
    /\ input.volume > input.liquidity * config.rugged_volume_multiplier
    /\ analysis.type = "pumped"

====
